---- MODULE Spec2Model ----
(***************************************************************************)
(* State-machine model of the two Anchor programs of creativorange/hive:   *)
(*   meta_treasury  (contracts/programs/meta_treasury/src/lib.rs)          *)
(*   meta_nft       (contracts/programs/meta_nft/src/lib.rs)               *)
(*                                                                         *)
(* One action per instruction.  An instruction is one atomic transition:   *)
(* the accounts struct is validated first (Anchor's #[derive(Accounts)]    *)
(* constraints, in which `init` creates the account), then the handler     *)
(* body runs; any error aborts the whole instruction and leaves every      *)
(* account as it was.  The variable `last` records the instruction that    *)
(* ran last, its signer and arguments, its outcome and the event it        *)
(* emitted, so that properties can speak about calls and their results.    *)
(*                                                                         *)
(* lamports[a] is the balance of account a in excess of its rent-exempt    *)
(* reserve; the Clock sysvar (event and record timestamps) is not          *)
(* modelled.                                                               *)
(***************************************************************************)
EXTENDS Integers, FiniteSets, Sequences, TLC

\* ------------------------------------------------------------------ bounds
InitLamports == 3
MaxAmount == 2
MaxPrice == 1
MaxPool == 4
WordBits == 14

\* ------------------------------------------------------- program constants
BPS_DENOMINATOR == 10000
MAX_SHARE_BPS == 10000
DEFAULT_MINT_PRICE == 100000000

\* The largest value of the model's unsigned word.  It stands for u64::MAX:
\* TLC's integers are 32 bit wide, so the word is 30 bit wide here.
U64_MAX == 2^30 - 1

\* ---------------------------------------------------------------- universe
Keys == {"alice", "bob"}
TreasuryPda == "treasury_pda"
Accounts == Keys \cup {TreasuryPda}
DefaultPubkey == "default"
StrategyIds == {"s1", "s2"}
MintKeys == {"m1", "m2"}

Amounts == 0..MaxAmount
ShareInputs == {0, 2500, 5000, MAX_SHARE_BPS, MAX_SHARE_BPS + 1}
PriceInputs == 1..MaxPrice
\* The accounts a mint names as fee recipient: the treasury PDA or a wallet
\* (which may be the payer itself).
FeeRecipients == {TreasuryPda, "bob"}

VARIABLES
    treasury,            \* TreasuryState account data
    treasury_exists,     \* the treasury PDA has been created (init)
    collection_config,   \* CollectionConfig account data
    collection_exists,   \* the collection PDA has been created (init)
    strategy_nfts,       \* strategy_id -> StrategyNftData, for the created records
    mints,               \* mint key -> token-unit, for the created mints
    tx,                  \* the mint_strategy_nft invocation in progress, step by step
    lamports,            \* account -> balance
    last                 \* the last instruction: op, signer, args, err, event

vars == <<treasury, treasury_exists, collection_config, collection_exists,
          strategy_nfts, mints, tx, lamports, last>>

treasuryVars == <<treasury, treasury_exists>>
nftVars == <<collection_config, collection_exists, strategy_nfts, mints, tx>>

NoEvent == [type |-> "none"]
NoArgs == [none |-> TRUE]

Call(op, signer, args, err, event) ==
    [op |-> op, signer |-> signer, args |-> args, err |-> err,
     event |-> IF err = "Ok" THEN event ELSE NoEvent]

\* ------------------------------------------------------------ arithmetic
checked_add_wrapping(a, b) == (a + b) % (U64_MAX + 1)

\* u64::checked_add / checked_sub: -1 stands for None (unwrap then panics).
checked_add(a, b) == IF a + b > U64_MAX THEN -1 ELSE a + b
checked_sub(a, b) == IF a < b THEN -1 ELSE a - b

\* system_program::transfer(from, to, amount) on a balance map.
CanTransfer(l, from, amount) == l[from] >= amount
Transfer(l, from, to, amount) ==
    LET l1 == [l EXCEPT ![from] = @ - amount]
    IN  [l1 EXCEPT ![to] = @ + amount]

\* Writing the data of account k in a collection of accounts.
Store(f, k, v) == [x \in DOMAIN f \cup {k} |-> IF x = k THEN v ELSE f[x]]

\* --------------------------------------------------------- meta_treasury
ZeroTreasury ==
    [authority |-> DefaultPubkey, emergency_multisig |-> DefaultPubkey,
     total_sol |-> 0, profit_pool |-> 0, is_initialized |-> FALSE]

\* #[account(constraint = authority.key() == treasury.authority)]
AuthorityConstraint(signer, t) == signer = t.authority

MultisigConstraint_authority(signer, t) == signer = t.authority

\* #[account(constraint = multisig.key() == treasury.emergency_multisig)]
MultisigConstraint(signer, t) == signer = t.emergency_multisig

ValidShare_zero(bps) == bps <= MAX_SHARE_BPS

\* require!(holder_share_bps > 0 && holder_share_bps <= 10000, InvalidShare)
ValidShare(bps) == bps > 0 /\ bps <= MAX_SHARE_BPS

distribution_amount_percent(pool, bps) == ((pool * bps) \div 100) % (U64_MAX + 1)

\* (profit_pool as u128).checked_mul(bps as u128).unwrap().checked_div(10000).unwrap() as u64
distribution_amount(pool, bps) == ((pool * bps) \div BPS_DENOMINATOR) % (U64_MAX + 1)

initialize_treasury_state_unflagged(signer, multisig, amount) ==
    [authority |-> signer, emergency_multisig |-> multisig,
     total_sol |-> amount, profit_pool |-> 0, is_initialized |-> FALSE]

\* TreasuryState after the handler body of each instruction.
initialize_treasury_state(signer, multisig, amount) ==
    [authority |-> signer, emergency_multisig |-> multisig,
     total_sol |-> amount, profit_pool |-> 0, is_initialized |-> TRUE]

add_profits_state_untracked(t, amount) ==
    [t EXCEPT !.total_sol = checked_add(t.total_sol, amount)]

add_profits_state(t, amount) ==
    [t EXCEPT !.total_sol = checked_add(t.total_sol, amount),
              !.profit_pool = checked_add(t.profit_pool, amount)]

distribute_profits_state(t, d) ==
    [t EXCEPT !.profit_pool = checked_sub(t.profit_pool, d),
              !.total_sol = checked_sub(t.total_sol, d)]

withdraw_emergency_state_pool(t, amount) ==
    [t EXCEPT !.total_sol = checked_sub(t.total_sol, amount),
              !.profit_pool = checked_sub(t.profit_pool, amount)]

withdraw_emergency_state(t, amount) ==
    [t EXCEPT !.total_sol = checked_sub(t.total_sol, amount)]

update_multisig_state(t, new_multisig) ==
    [t EXCEPT !.emergency_multisig = new_multisig]

initialize_treasury_err_reinit(signer, amount) ==
    IF amount > 0 /\ ~CanTransfer(lamports, signer, amount) THEN "InsufficientLamports"
    ELSE "Ok"

\* The outcome of each instruction: "Ok" or the error that aborts it.
initialize_treasury_err(signer, amount) ==
    IF treasury_exists THEN "AccountAlreadyInUse"
    ELSE IF amount > 0 /\ ~CanTransfer(lamports, signer, amount) THEN "InsufficientLamports"
    ELSE "Ok"

add_profits_err(signer, amount) ==
    IF ~treasury_exists THEN "AccountNotInitialized"
    ELSE IF ~AuthorityConstraint(signer, treasury) THEN "ConstraintRaw"
    ELSE IF ~treasury.is_initialized THEN "NotInitialized"
    ELSE IF ~(amount > 0) THEN "InvalidAmount"
    ELSE IF ~CanTransfer(lamports, signer, amount) THEN "InsufficientLamports"
    ELSE IF checked_add(treasury.total_sol, amount) = -1 THEN "Panic"
    ELSE IF checked_add(treasury.profit_pool, amount) = -1 THEN "Panic"
    ELSE "Ok"

distribute_profits_err(signer, bps) ==
    IF ~treasury_exists THEN "AccountNotInitialized"
    ELSE IF ~AuthorityConstraint(signer, treasury) THEN "ConstraintRaw"
    ELSE IF ~treasury.is_initialized THEN "NotInitialized"
    ELSE IF ~(treasury.profit_pool > 0) THEN "NoProfits"
    ELSE IF ~ValidShare(bps) THEN "InvalidShare"
    ELSE IF ~(distribution_amount(treasury.profit_pool, bps) > 0) THEN "InvalidAmount"
    ELSE IF ~(distribution_amount(treasury.profit_pool, bps) <= treasury.profit_pool)
         THEN "InsufficientFunds"
    \* `lamports -= d` below the balance, or checked_sub(..).unwrap() on None:
    \* the program panics (or the runtime rejects the unbalanced instruction).
    ELSE IF lamports[TreasuryPda] < distribution_amount(treasury.profit_pool, bps) THEN "Panic"
    ELSE IF checked_sub(treasury.total_sol, distribution_amount(treasury.profit_pool, bps)) = -1
         THEN "Panic"
    ELSE "Ok"

withdraw_emergency_err(signer, amount) ==
    IF ~treasury_exists THEN "AccountNotInitialized"
    ELSE IF ~MultisigConstraint(signer, treasury) THEN "ConstraintRaw"
    ELSE IF ~treasury.is_initialized THEN "NotInitialized"
    ELSE IF ~(amount > 0 /\ amount <= treasury.total_sol) THEN "InsufficientFunds"
    ELSE IF lamports[TreasuryPda] < amount THEN "Panic"
    ELSE "Ok"

update_multisig_err(signer) ==
    IF ~treasury_exists THEN "AccountNotInitialized"
    ELSE IF ~MultisigConstraint(signer, treasury) THEN "ConstraintRaw"
    ELSE IF ~treasury.is_initialized THEN "NotInitialized"
    ELSE "Ok"

initialize_treasury(signer, multisig, amount) ==
    LET err == initialize_treasury_err(signer, amount)
        t == initialize_treasury_state(signer, multisig, amount)
    IN  /\ last' = Call("initialize_treasury", signer,
                        [amount |-> amount, multisig |-> multisig], err,
                        [type |-> "TreasuryInitialized", authority |-> t.authority,
                         initial_amount |-> amount])
        /\ IF err = "Ok"
           THEN /\ treasury' = t
                /\ treasury_exists' = TRUE
                /\ lamports' = IF amount > 0
                               THEN Transfer(lamports, signer, TreasuryPda, amount)
                               ELSE lamports
           ELSE UNCHANGED <<treasury, treasury_exists, lamports>>
        /\ UNCHANGED nftVars

add_profits(signer, amount) ==
    LET err == add_profits_err(signer, amount)
        t == add_profits_state(treasury, amount)
    IN  /\ last' = Call("add_profits", signer, [amount |-> amount], err,
                        [type |-> "ProfitsAdded", amount |-> amount,
                         new_total |-> t.total_sol, new_profit_pool |-> t.profit_pool])
        /\ IF err = "Ok"
           THEN /\ treasury' = t
                /\ lamports' = Transfer(lamports, signer, TreasuryPda, amount)
           ELSE UNCHANGED <<treasury, lamports>>
        /\ UNCHANGED <<treasury_exists, nftVars>>

distribute_profits(signer, holder_share_bps, holder) ==
    LET err == distribute_profits_err(signer, holder_share_bps)
        d == distribution_amount(treasury.profit_pool, holder_share_bps)
        t == distribute_profits_state(treasury, d)
    IN  /\ last' = Call("distribute_profits", signer,
                        [holder_share_bps |-> holder_share_bps, holder |-> holder], err,
                        [type |-> "ProfitsDistributed", holder |-> holder, amount |-> d,
                         share_bps |-> holder_share_bps, remaining_pool |-> t.profit_pool])
        /\ IF err = "Ok"
           THEN /\ treasury' = t
                /\ lamports' = Transfer(lamports, TreasuryPda, holder, d)
           ELSE UNCHANGED <<treasury, lamports>>
        /\ UNCHANGED <<treasury_exists, nftVars>>

withdraw_emergency(signer, amount, destination) ==
    LET err == withdraw_emergency_err(signer, amount)
        t == withdraw_emergency_state(treasury, amount)
    IN  /\ last' = Call("withdraw_emergency", signer,
                        [amount |-> amount, destination |-> destination], err,
                        [type |-> "EmergencyWithdrawal", multisig |-> signer,
                         destination |-> destination, amount |-> amount,
                         remaining |-> t.total_sol])
        /\ IF err = "Ok"
           THEN /\ treasury' = t
                /\ lamports' = Transfer(lamports, TreasuryPda, destination, amount)
           ELSE UNCHANGED <<treasury, lamports>>
        /\ UNCHANGED <<treasury_exists, nftVars>>

update_multisig(signer, new_multisig) ==
    LET err == update_multisig_err(signer)
    IN  /\ last' = Call("update_multisig", signer, [new_multisig |-> new_multisig], err,
                        [type |-> "MultisigUpdated",
                         old_multisig |-> treasury.emergency_multisig,
                         new_multisig |-> new_multisig])
        /\ IF err = "Ok"
           THEN treasury' = update_multisig_state(treasury, new_multisig)
           ELSE UNCHANGED treasury
        /\ UNCHANGED <<treasury_exists, lamports, nftVars>>

ZeroCollection ==
    [authority |-> DefaultPubkey, total_minted |-> 0, mint_price_lamports |-> 0,
     is_active |-> FALSE]

\* -------------------------------------------------------------- meta_nft
UpdateConfigConstraint_none(signer, c) == TRUE

\* #[account(..., constraint = authority.key() == collection_config.authority @ Unauthorized)]
UpdateConfigConstraint(signer, c) == signer = c.authority

StrategyNftInitOk_if_needed(strategy_id) == TRUE

\* #[account(init, ..., seeds = [b"strategy_nft", strategy_id.as_bytes()], bump)]:
\* creating the record account fails when the derived address is in use.
StrategyNftInitOk(strategy_id) == strategy_id \notin DOMAIN strategy_nfts

\* #[account(init, payer = payer, mint::decimals = 0, ...)] pub mint
MintInitOk(mint) == mint \notin DOMAIN mints

MintingActive_unchecked(c) == TRUE

\* require!(config.is_active, MetaNftError::MintingPaused)
MintingActive(c) == c.is_active

\* CollectionConfig after the handler body of each instruction.
initialize_collection_state(signer) ==
    [authority |-> signer, total_minted |-> 0,
     mint_price_lamports |-> DEFAULT_MINT_PRICE, is_active |-> TRUE]

mint_strategy_nft_state_uncounted(c) == c

mint_strategy_nft_state(c) ==
    [c EXCEPT !.total_minted = checked_add(c.total_minted, 1)]

update_mint_price_state(c, new_price) == [c EXCEPT !.mint_price_lamports = new_price]

toggle_minting_state(c, is_active) == [c EXCEPT !.is_active = is_active]

transfer_authority_state_kept(c, new_authority) == c

transfer_authority_state(c, new_authority) == [c EXCEPT !.authority = new_authority]

StrategyNftData_default_price(mint, strategy_id, payer, required_lamports) ==
    [mint |-> mint, strategy_id |-> strategy_id, owner |-> payer,
     mint_price |-> DEFAULT_MINT_PRICE]

\* StrategyNftData written by mint_strategy_nft (the strategy attributes the
\* caller supplies are copied verbatim and are not modelled).
StrategyNftData(mint, strategy_id, payer, required_lamports) ==
    [mint |-> mint, strategy_id |-> strategy_id, owner |-> payer,
     mint_price |-> required_lamports]

\* The token-unit: a mint of zero decimals, one unit minted to the payer's
\* associated token account, master edition with max supply 0.
TokenUnit(payer) == [supply |-> 1, holder |-> payer, max_supply |-> 0]

\* The events of the configuration mutators.
MintPriceUpdated(old_price, new_price) ==
    [type |-> "MintPriceUpdated", old_price |-> old_price, new_price |-> new_price]

MintingToggled(is_active) ==
    [type |-> "MintingToggled", is_active |-> is_active]

AuthorityTransferred(old_authority, new_authority) ==
    [type |-> "AuthorityTransferred", old_authority |-> old_authority,
     new_authority |-> new_authority]

initialize_collection_err_reinit(signer) == "Ok"

initialize_collection_err(signer) ==
    IF collection_exists THEN "AccountAlreadyInUse" ELSE "Ok"

\* metadata_ok: whether the two CPIs into the external metadata program succeed.
mint_strategy_nft_err(payer, strategy_id, mint, metadata_ok) ==
    IF ~collection_exists THEN "AccountNotInitialized"
    ELSE IF ~StrategyNftInitOk(strategy_id) THEN "AccountAlreadyInUse"
    ELSE IF ~MintInitOk(mint) THEN "AccountAlreadyInUse"
    ELSE IF ~MintingActive(collection_config) THEN "MintingPaused"
    ELSE IF ~CanTransfer(lamports, payer, collection_config.mint_price_lamports)
         THEN "InsufficientLamports"
    ELSE IF ~metadata_ok THEN "MetadataError"
    ELSE IF checked_add(collection_config.total_minted, 1) = -1 THEN "Panic"
    ELSE "Ok"

update_config_err(signer) ==
    IF ~collection_exists THEN "AccountNotInitialized"
    ELSE IF ~UpdateConfigConstraint(signer, collection_config) THEN "Unauthorized"
    ELSE "Ok"

initialize_collection(signer) ==
    LET err == initialize_collection_err(signer)
    IN  /\ last' = Call("initialize_collection", signer, NoArgs, err,
                        [type |-> "CollectionInitialized", authority |-> signer])
        /\ IF err = "Ok"
           THEN /\ collection_config' = initialize_collection_state(signer)
                /\ collection_exists' = TRUE
           ELSE UNCHANGED <<collection_config, collection_exists>>
        /\ UNCHANGED <<strategy_nfts, mints, lamports, treasuryVars, tx>>

mint_strategy_nft(payer, strategy_id, mint, recipient, metadata_ok) ==
    LET err == mint_strategy_nft_err(payer, strategy_id, mint, metadata_ok)
        required_lamports == collection_config.mint_price_lamports
    IN  /\ last' = Call("mint_strategy_nft", payer,
                        [strategy_id |-> strategy_id, mint |-> mint, treasury |-> recipient],
                        err,
                        [type |-> "StrategyNftMinted", mint |-> mint, owner |-> payer,
                         strategy_id |-> strategy_id, mint_price |-> required_lamports])
        /\ IF err = "Ok"
           THEN /\ lamports' = Transfer(lamports, payer, recipient, required_lamports)
                /\ mints' = Store(mints, mint, TokenUnit(payer))
                /\ strategy_nfts' = Store(strategy_nfts, strategy_id,
                      StrategyNftData(mint, strategy_id, payer, required_lamports))
                /\ collection_config' = mint_strategy_nft_state(collection_config)
           ELSE UNCHANGED <<lamports, mints, strategy_nfts, collection_config>>
        /\ UNCHANGED <<collection_exists, treasuryVars, tx>>

update_mint_price(signer, new_price) ==
    LET err == update_config_err(signer)
    IN  /\ last' = Call("update_mint_price", signer, [new_price |-> new_price], err,
                        MintPriceUpdated(collection_config.mint_price_lamports, new_price))
        /\ IF err = "Ok"
           THEN collection_config' = update_mint_price_state(collection_config, new_price)
           ELSE UNCHANGED collection_config
        /\ UNCHANGED <<collection_exists, strategy_nfts, mints, lamports, treasuryVars, tx>>

toggle_minting(signer, is_active) ==
    LET err == update_config_err(signer)
    IN  /\ last' = Call("toggle_minting", signer, [is_active |-> is_active], err,
                        MintingToggled(is_active))
        /\ IF err = "Ok"
           THEN collection_config' = toggle_minting_state(collection_config, is_active)
           ELSE UNCHANGED collection_config
        /\ UNCHANGED <<collection_exists, strategy_nfts, mints, lamports, treasuryVars, tx>>

transfer_authority(signer, new_authority) ==
    LET err == update_config_err(signer)
    IN  /\ last' = Call("transfer_authority", signer, [new_authority |-> new_authority], err,
                        AuthorityTransferred(collection_config.authority, new_authority))
        /\ IF err = "Ok"
           THEN collection_config' = transfer_authority_state(collection_config, new_authority)
           ELSE UNCHANGED collection_config
        /\ UNCHANGED <<collection_exists, strategy_nfts, mints, lamports, treasuryVars, tx>>

\* ---------------------------------------------------------------------------
\* One mint_strategy_nft invocation, step by step.  The runtime first validates
\* the accounts of MintStrategyNft in field order, which creates the accounts
\* marked init, and then runs the handler body; a step that fails discards
\* every change of the invocation.

\* No invocation in progress.
IdleTx == [pc |-> 0]

\* The StrategyNftData account as init creates it: allocated, zeroed.
ZeroStrategyNft ==
    [mint |-> DefaultPubkey, strategy_id |-> "", owner |-> DefaultPubkey, mint_price |-> 0]

\* The mint account as init creates it: no supply, no token account, no edition.
ZeroMint == [supply |-> 0, holder |-> DefaultPubkey, max_supply |-> -1]

MintSteps_handler_first ==
    <<"load_collection_config", "require_is_active", "transfer_fee",
      "init_mint", "init_token_account", "mint_to",
      "create_metadata_accounts_v3", "create_master_edition_v3",
      "init_strategy_nft", "store_strategy_data", "total_minted">>

\* The steps in the order the program executes them.
MintSteps ==
    <<"load_collection_config", "init_strategy_nft", "init_mint", "init_token_account",
      "require_is_active", "transfer_fee", "mint_to",
      "create_metadata_accounts_v3", "create_master_edition_v3",
      "store_strategy_data", "total_minted">>

\* The outcome of one step of the invocation t in the current state.
MintStepErr(step, t) ==
    CASE step = "load_collection_config" ->
            IF collection_exists THEN "Ok" ELSE "AccountNotInitialized"
      [] step = "init_strategy_nft" ->
            IF StrategyNftInitOk(t.strategy_id) THEN "Ok" ELSE "AccountAlreadyInUse"
      [] step = "init_mint" ->
            IF MintInitOk(t.mint) THEN "Ok" ELSE "AccountAlreadyInUse"
      [] step = "require_is_active" ->
            IF MintingActive(collection_config) THEN "Ok" ELSE "MintingPaused"
      [] step = "transfer_fee" ->
            IF CanTransfer(lamports, t.payer, collection_config.mint_price_lamports)
            THEN "Ok" ELSE "InsufficientLamports"
      [] step \in {"create_metadata_accounts_v3", "create_master_edition_v3"} ->
            IF t.metadata_ok THEN "Ok" ELSE "MetadataError"
      [] step = "total_minted" ->
            IF checked_add(collection_config.total_minted, 1) = -1 THEN "Panic" ELSE "Ok"
      [] OTHER -> "Ok"

\* The accounts after one successful step of the invocation t.
MintStepState(step, t) ==
    [collection_config |->
        IF step = "total_minted" THEN mint_strategy_nft_state(collection_config)
        ELSE collection_config,
     strategy_nfts |->
        CASE step = "init_strategy_nft" ->
                Store(strategy_nfts, t.strategy_id, ZeroStrategyNft)
          [] step = "store_strategy_data" ->
                Store(strategy_nfts, t.strategy_id,
                      StrategyNftData(t.mint, t.strategy_id, t.payer,
                                      collection_config.mint_price_lamports))
          [] OTHER -> strategy_nfts,
     mints |->
        CASE step = "init_mint" -> Store(mints, t.mint, ZeroMint)
          [] step = "init_token_account" ->
                Store(mints, t.mint, [mints[t.mint] EXCEPT !.holder = t.payer])
          [] step = "mint_to" ->
                Store(mints, t.mint, [mints[t.mint] EXCEPT !.supply = @ + 1])
          [] step = "create_master_edition_v3" ->
                Store(mints, t.mint, [mints[t.mint] EXCEPT !.max_supply = 0])
          [] OTHER -> mints,
     lamports |->
        IF step = "transfer_fee"
        THEN Transfer(lamports, t.payer, t.treasury, collection_config.mint_price_lamports)
        ELSE lamports]

\* The instruction arrives: nothing has run yet; snapshot is what a failing
\* step restores.
mint_begin(payer, strategy_id, mint, recipient, metadata_ok) ==
    /\ tx.pc = 0
    /\ tx' = [pc |-> 1, payer |-> payer, strategy_id |-> strategy_id, mint |-> mint,
              treasury |-> recipient, metadata_ok |-> metadata_ok, done |-> <<>>,
              snapshot |-> [collection_config |-> collection_config,
                            strategy_nfts |-> strategy_nfts,
                            mints |-> mints, lamports |-> lamports]]
    /\ UNCHANGED <<collection_config, collection_exists, strategy_nfts, mints,
                   lamports, last, treasuryVars>>

\* The next step runs; its failure aborts the invocation.
mint_step ==
    /\ tx.pc \in 1..Len(MintSteps)
    /\ LET step == MintSteps[tx.pc]
           err == MintStepErr(step, tx)
           after == MintStepState(step, tx)
       IN  IF err = "Ok"
           THEN /\ collection_config' = after.collection_config
                /\ strategy_nfts' = after.strategy_nfts
                /\ mints' = after.mints
                /\ lamports' = after.lamports
                /\ tx' = [tx EXCEPT !.pc = @ + 1, !.done = Append(@, step)]
                /\ UNCHANGED last
           ELSE /\ collection_config' = tx.snapshot.collection_config
                /\ strategy_nfts' = tx.snapshot.strategy_nfts
                /\ mints' = tx.snapshot.mints
                /\ lamports' = tx.snapshot.lamports
                /\ tx' = IdleTx
                /\ last' = Call("mint_strategy_nft", tx.payer,
                                [strategy_id |-> tx.strategy_id, mint |-> tx.mint,
                                 treasury |-> tx.treasury],
                                err, NoEvent)
    /\ UNCHANGED <<collection_exists, treasuryVars>>

\* Every step has run: the event is emitted and the invocation returns Ok.
mint_commit ==
    /\ tx.pc = Len(MintSteps) + 1
    /\ tx' = IdleTx
    /\ last' = Call("mint_strategy_nft", tx.payer,
                    [strategy_id |-> tx.strategy_id, mint |-> tx.mint,
                     treasury |-> tx.treasury],
                    "Ok",
                    [type |-> "StrategyNftMinted", mint |-> tx.mint, owner |-> tx.payer,
                     strategy_id |-> tx.strategy_id,
                     mint_price |-> collection_config.mint_price_lamports])
    /\ UNCHANGED <<collection_config, collection_exists, strategy_nfts, mints,
                   lamports, treasuryVars>>



\* The computation of distribute_profits at an explicit integer width: the
\* word (u64) has WordBits bits, the widened intermediate (u128) twice as many;
\* as in the program, BPS_DENOMINATOR fits the word.
WordMax == 2^WordBits - 1
WideMax == 2^(2 * WordBits) - 1

\* profit_pool at the ends of the word and around BPS_DENOMINATOR.
DistributionPools ==
    (0..MaxAmount) \cup ((BPS_DENOMINATOR - 1)..(BPS_DENOMINATOR + 1))
                   \cup ((WordMax - MaxAmount)..WordMax)
DistributionShares == 0..(MAX_SHARE_BPS + 1)

checked_mul_narrow(a, b) == IF a * b > WordMax THEN -1 ELSE a * b

\* u128::checked_mul and checked_div: -1 stands for None; `as u64` truncates.
checked_mul(a, b) == IF a * b > WideMax THEN -1 ELSE a * b
checked_div(a, b) == IF b = 0 THEN -1 ELSE a \div b
as_u64(x) == x % (WordMax + 1)

\* distribution_amount, -1 when an unwrap() panics.
distribution_amount_u128(pool, bps) ==
    LET product == checked_mul(pool, bps)
        quotient == IF product = -1 THEN -1 ELSE checked_div(product, BPS_DENOMINATOR)
    IN  IF quotient = -1 THEN -1 ELSE as_u64(quotient)

\* The outcome of the requirements and the computation on (profit_pool, bps).
distribution_err(pool, bps) ==
    IF ~(pool > 0) THEN "NoProfits"
    ELSE IF ~ValidShare(bps) THEN "InvalidShare"
    ELSE IF distribution_amount_u128(pool, bps) = -1 THEN "Panic"
    ELSE IF ~(distribution_amount_u128(pool, bps) > 0) THEN "InvalidAmount"
    ELSE IF ~(distribution_amount_u128(pool, bps) <= pool) THEN "InsufficientFunds"
    ELSE "Ok"

\* The computation is applied to the current pool and a share.
compute_distribution(bps) ==
    /\ treasury_exists /\ treasury.is_initialized
    /\ last' = Call("distribution_amount", treasury.authority,
                    [profit_pool |-> treasury.profit_pool, holder_share_bps |-> bps],
                    distribution_err(treasury.profit_pool, bps),
                    [type |-> "distribution_amount",
                     amount |-> distribution_amount_u128(treasury.profit_pool, bps)])
    /\ UNCHANGED <<treasuryVars, nftVars, lamports>>

\* ------------------------------------------------------------ specifications

InitTreasury ==
    /\ treasury = ZeroTreasury
    /\ treasury_exists = FALSE
    /\ collection_config = ZeroCollection
    /\ collection_exists = FALSE
    /\ strategy_nfts = <<>>
    /\ mints = <<>>
    /\ tx = IdleTx
    /\ lamports = [a \in Accounts |-> IF a \in Keys THEN InitLamports ELSE 0]
    /\ last = Call("none", DefaultPubkey, NoArgs, "Ok", NoEvent)

NextTreasury ==
    \/ \E s \in Keys, m \in Keys, a \in Amounts : initialize_treasury(s, m, a)
    \* profit_pool is not bounded by the balances (withdraw_emergency leaves it
    \* alone), so the callers stop adding profits at MaxPool.
    \/ \E s \in Keys, a \in Amounts :
          treasury.profit_pool + a <= MaxPool /\ add_profits(s, a)
    \/ \E s \in Keys, b \in ShareInputs, h \in Accounts : distribute_profits(s, b, h)
    \/ \E s \in Keys, a \in Amounts, d \in Accounts : withdraw_emergency(s, a, d)
    \/ \E s \in Keys, m \in Keys : update_multisig(s, m)

SpecTreasury == InitTreasury /\ [][NextTreasury]_vars

\* The collection program alone; every payer can afford one mint at the
\* default price and a few at the prices of PriceInputs.
InitNft ==
    /\ treasury = ZeroTreasury
    /\ treasury_exists = FALSE
    /\ collection_config = ZeroCollection
    /\ collection_exists = FALSE
    /\ strategy_nfts = <<>>
    /\ mints = <<>>
    /\ tx = IdleTx
    /\ lamports = [a \in Accounts |->
                     IF a \in Keys THEN DEFAULT_MINT_PRICE + InitLamports ELSE 0]
    /\ last = Call("none", DefaultPubkey, NoArgs, "Ok", NoEvent)

NextNft ==
    \/ \E s \in Keys : initialize_collection(s)
    \/ \E p \in Keys, id \in StrategyIds, m \in MintKeys, r \in FeeRecipients, ok \in BOOLEAN :
          mint_strategy_nft(p, id, m, r, ok)
    \/ \E s \in Keys, n \in PriceInputs : update_mint_price(s, n)
    \/ \E s \in Keys, b \in BOOLEAN : toggle_minting(s, b)
    \/ \E s \in Keys, n \in Keys : transfer_authority(s, n)

SpecNft == InitNft /\ [][NextNft]_vars

\* add_profits at the top of the unsigned range.  profit_pool is raised by
\* add_profits and never lowered by withdraw_emergency, so cycles of the two
\* take it as high as the word allows while total_sol stays low; the initial
\* states are the fresh program and treasuries after such cycles.
TopPools == (U64_MAX - MaxAmount)..U64_MAX

InitAddProfits ==
    /\ \/ treasury = ZeroTreasury /\ treasury_exists = FALSE
       \/ /\ treasury_exists = TRUE
          /\ \E m \in Keys, pool \in TopPools :
                treasury = [initialize_treasury_state("alice", m, 0)
                               EXCEPT !.profit_pool = pool]
    /\ collection_config = ZeroCollection
    /\ collection_exists = FALSE
    /\ strategy_nfts = <<>>
    /\ mints = <<>>
    /\ tx = IdleTx
    /\ lamports = [a \in Accounts |-> IF a \in Keys THEN InitLamports ELSE 0]
    /\ last = Call("none", DefaultPubkey, NoArgs, "Ok", NoEvent)

NextAddProfits ==
    \/ \E s \in Keys, m \in Keys, a \in Amounts : initialize_treasury(s, m, a)
    \/ \E s \in Keys, a \in Amounts :
          /\ treasury.profit_pool + a <= MaxPool \/ treasury.profit_pool \in TopPools
          /\ add_profits(s, a)
    \/ \E s \in Keys, a \in Amounts, d \in Accounts : withdraw_emergency(s, a, d)

SpecAddProfits == InitAddProfits /\ [][NextAddProfits]_vars

\* The collection program with mint_strategy_nft run step by step; the other
\* instructions run between invocations only (an instruction is atomic).
NextMintSteps ==
    \/ /\ tx.pc = 0
       /\ \/ \E s \in Keys : initialize_collection(s)
          \/ \E s \in Keys, b \in BOOLEAN : toggle_minting(s, b)
    \/ \E p \in Keys, id \in StrategyIds, m \in MintKeys, r \in FeeRecipients, ok \in BOOLEAN :
          mint_begin(p, id, m, r, ok)
    \/ mint_step
    \/ mint_commit

SpecMintSteps == InitNft /\ [][NextMintSteps]_vars


\* The computation of distribute_profits on a treasury whose profit_pool is
\* any of DistributionPools.
InitDistribution ==
    /\ \E pool \in DistributionPools :
          /\ treasury = [initialize_treasury_state("alice", "bob", pool)
                            EXCEPT !.profit_pool = pool]
          /\ lamports = [a \in Accounts |-> IF a = TreasuryPda THEN pool ELSE InitLamports]
    /\ treasury_exists = TRUE
    /\ collection_config = ZeroCollection
    /\ collection_exists = FALSE
    /\ strategy_nfts = <<>>
    /\ mints = <<>>
    /\ tx = IdleTx
    /\ last = Call("none", DefaultPubkey, NoArgs, "Ok", NoEvent)

\* The computation is applied once to each pool.
NextDistribution ==
    /\ last.op = "none"
    /\ \E bps \in DistributionShares : compute_distribution(bps)

SpecDistribution == InitDistribution /\ [][NextDistribution]_vars


\* The treasury program next to a collection whose mint fee goes to the
\* treasury account: the collection has been initialized by alice and its
\* price set to MaxPrice, which the payer, bob, can afford.
InitDeposits ==
    /\ treasury = ZeroTreasury
    /\ treasury_exists = FALSE
    /\ collection_config =
          update_mint_price_state(initialize_collection_state("alice"), MaxPrice)
    /\ collection_exists = TRUE
    /\ strategy_nfts = <<>>
    /\ mints = <<>>
    /\ tx = IdleTx
    /\ lamports = [a \in Accounts |-> IF a \in Keys THEN InitLamports ELSE 0]
    /\ last = Call("none", DefaultPubkey, NoArgs, "Ok", NoEvent)

NextDeposits ==
    \/ NextTreasury
    \/ \E id \in StrategyIds, m \in MintKeys :
          mint_strategy_nft("bob", id, m, TreasuryPda, TRUE)

SpecDeposits == InitDeposits /\ [][NextDeposits]_vars


\* Both programs side by side, for what holds of the two authorities together:
\* every instruction of the collection, the authority handed to any account,
\* and every instruction of the treasury, which pays to bob and holds one
\* unit of profit at most.
NextAuthorities ==
    \/ \E s \in Keys : initialize_collection(s)
    \/ \E id \in StrategyIds : mint_strategy_nft("bob", id, "m1", "alice", TRUE)
    \/ \E s \in Keys, n \in PriceInputs : update_mint_price(s, n)
    \/ \E s \in Keys, b \in BOOLEAN : toggle_minting(s, b)
    \/ \E s \in Keys, n \in Accounts : transfer_authority(s, n)
    \/ \E s \in Keys, m \in Keys : initialize_treasury(s, m, 1)
    \/ \E s \in Keys : treasury.profit_pool = 0 /\ add_profits(s, 1)
    \/ \E s \in Keys : distribute_profits(s, MAX_SHARE_BPS, "bob")
    \/ \E s \in Keys : withdraw_emergency(s, 1, "bob")
    \/ \E s \in Keys, m \in Keys : update_multisig(s, m)

SpecAuthorities == InitTreasury /\ [][NextAuthorities]_vars


\* ------------------------------------------------------------------ claims
IsCall(c, op) == c.op = op
Succeeded(c, op) == c.op = op /\ c.err = "Ok"
Failed(c, op) == c.op = op /\ c.err # "Ok"

\* C1: in every reachable state of the treasury, 0 <= profit_pool <= total_sol
\* (the spec's total_balance).  Stated as claimed; withdraw_emergency lowers
\* total_sol alone, so the code does not keep it.
C1_ProfitPoolWithinTotal ==
    treasury_exists =>
        /\ 0 <= treasury.profit_pool
        /\ 0 <= treasury.total_sol
        /\ treasury.profit_pool <= treasury.total_sol

\* C2: total_minted equals the number of StrategyNftData records that exist,
\* starts at 0, grows by exactly 1 on each successful mint_strategy_nft and is
\* changed by no other instruction, successful or failing.
C2_TotalMintedCountsRecords ==
    /\ collection_config.total_minted = 0
    /\ Cardinality(DOMAIN strategy_nfts) = 0
    /\ [][/\ collection_config'.total_minted = Cardinality(DOMAIN strategy_nfts')
          /\ collection_config'.total_minted =
                IF Succeeded(last', "mint_strategy_nft")
                THEN collection_config.total_minted + 1
                ELSE collection_config.total_minted]_vars

C2_Witness ==
    /\ Succeeded(last, "mint_strategy_nft")
    /\ collection_config.total_minted = Cardinality(StrategyIds)
    /\ DOMAIN strategy_nfts = StrategyIds

\* C3: for a strategy identifier that already has a record, every further
\* mint_strategy_nft fails at the creation of the record account and leaves the
\* record, total_minted, the token-units and all balances as they were (so at
\* most one mint per identifier ever succeeds), and a record once created is
\* never changed.
C3_OneMintPerStrategyId ==
    [][/\ (IsCall(last', "mint_strategy_nft")
             /\ last'.args.strategy_id \in DOMAIN strategy_nfts)
          => /\ last'.err = "AccountAlreadyInUse"
             /\ UNCHANGED <<strategy_nfts, mints, collection_config,
                            collection_exists, lamports>>
       /\ \A id \in DOMAIN strategy_nfts :
             id \in DOMAIN strategy_nfts' /\ strategy_nfts'[id] = strategy_nfts[id]]_vars

\* A second request for a minted identifier, by another payer, with a fresh
\* mint key, while minting is active and the payer can afford the fee.
C3_Witness ==
    /\ Failed(last, "mint_strategy_nft")
    /\ last.args.strategy_id \in DOMAIN strategy_nfts
    /\ last.args.mint \notin DOMAIN mints
    /\ strategy_nfts[last.args.strategy_id].owner # last.signer
    /\ collection_config.is_active
    /\ lamports[last.signer] >= collection_config.mint_price_lamports

MintEffects == <<lamports, mints, strategy_nfts, collection_config, collection_exists>>

\* C4 as claimed: while is_active is false every mint_strategy_nft fails with
\* MintingPaused and changes nothing.
C4_PausedMintFailsMintingPaused ==
    [][(collection_exists /\ ~collection_config.is_active
          /\ IsCall(last', "mint_strategy_nft"))
       => (last'.err = "MintingPaused" /\ UNCHANGED MintEffects)]_vars

\* C4 as amended: while is_active is false every mint_strategy_nft fails and
\* changes nothing (no fee moved, no token-unit, no record, total_minted as it
\* was); the error is MintingPaused when the record and mint accounts can be
\* created, and the creation failure raised by the accounts validation, which
\* runs before the handler body, when they cannot.
C4_PausedMintFails ==
    [][(collection_exists /\ ~collection_config.is_active
          /\ IsCall(last', "mint_strategy_nft"))
       => /\ last'.err # "Ok"
          /\ UNCHANGED MintEffects
          /\ last'.err =
                IF /\ last'.args.strategy_id \notin DOMAIN strategy_nfts
                   /\ last'.args.mint \notin DOMAIN mints
                THEN "MintingPaused" ELSE "AccountAlreadyInUse"]_vars

C4_Witness ==
    /\ last.op = "mint_strategy_nft"
    /\ last.err = "MintingPaused"
    /\ ~collection_config.is_active
    /\ collection_config.total_minted > 0
    /\ lamports[last.signer] >= collection_config.mint_price_lamports

InvalidShares == {0, MAX_SHARE_BPS + 1}

\* C5 as claimed: in every state of an existing treasury, distribute_profits
\* by the authority with holder_share_bps 0 or 10001 fails with InvalidShare
\* and changes nothing.
C5_InvalidShareFailsInvalidShare ==
    [][(/\ treasury_exists
        /\ IsCall(last', "distribute_profits")
        /\ last'.signer = treasury.authority
        /\ last'.args.holder_share_bps \in InvalidShares)
       => (last'.err = "InvalidShare" /\ UNCHANGED <<treasury, treasury_exists, lamports>>)]_vars

\* C5 as amended: such a call fails and changes nothing; the error is
\* InvalidShare when profit_pool > 0 and NoProfits when profit_pool = 0 (the
\* pool is checked before the share).
C5_InvalidShareFails ==
    [][(/\ treasury_exists
        /\ IsCall(last', "distribute_profits")
        /\ last'.signer = treasury.authority
        /\ last'.args.holder_share_bps \in InvalidShares)
       => /\ last'.err = IF treasury.profit_pool > 0 THEN "InvalidShare" ELSE "NoProfits"
          /\ UNCHANGED <<treasury, treasury_exists, lamports>>]_vars

C5_Witness ==
    /\ last.op = "distribute_profits"
    /\ last.err = "InvalidShare"
    /\ last.signer = treasury.authority
    /\ last.args.holder_share_bps = 0
    /\ treasury.profit_pool > 0

\* withdraw_emergency succeeds only when signed by the emergency_multisig
\* stored in TreasuryState.
WithdrawOnlyByMultisig ==
    Succeeded(last', "withdraw_emergency") => last'.signer = treasury.emergency_multisig

\* Right after a successful update_multisig(new), the same withdraw_emergency
\* (0 < amount <= total_sol) signed by `new` succeeds.
WithdrawByNewMultisigSucceeds ==
    (/\ Succeeded(last, "update_multisig")
     /\ IsCall(last', "withdraw_emergency")
     /\ last'.signer = last.args.new_multisig
     /\ last'.args.amount > 0
     /\ last'.args.amount <= treasury.total_sol)
    => last'.err = "Ok"

\* C6 as claimed: withdraw_emergency succeeds only for the stored
\* emergency_multisig; right after a successful update_multisig(new), a
\* withdraw_emergency signed by the previous emergency authority fails and the
\* same call signed by `new` succeeds.
C6_OldMultisigFailsNewSucceeds ==
    [][/\ WithdrawOnlyByMultisig
       /\ WithdrawByNewMultisigSucceeds
       /\ (/\ Succeeded(last, "update_multisig")
           /\ IsCall(last', "withdraw_emergency")
           /\ last'.signer = last.event.old_multisig)
          => last'.err # "Ok"]_vars

\* C6 as amended: the previous emergency authority fails when it is an
\* identity other than `new` (update_multisig accepts the identity already
\* stored, and then the previous authority is still the current one).
C6_ReplacedMultisigFailsNewSucceeds ==
    [][/\ WithdrawOnlyByMultisig
       /\ WithdrawByNewMultisigSucceeds
       /\ (/\ Succeeded(last, "update_multisig")
           /\ IsCall(last', "withdraw_emergency")
           /\ last'.signer = last.event.old_multisig
           /\ last.event.old_multisig # last.args.new_multisig)
          => (last'.err = "ConstraintRaw" /\ UNCHANGED <<treasury, lamports>>)]_vars

\* update_multisig has replaced the emergency authority by another identity
\* and the treasury holds a balance that can be withdrawn.
C6_Witness ==
    /\ Succeeded(last, "update_multisig")
    /\ last.event.old_multisig # last.args.new_multisig
    /\ treasury.emergency_multisig = last.args.new_multisig
    /\ treasury.total_sol > 0

\* C7: the emergency authority is always an identity other than the normal
\* authority, so withdraw_emergency never succeeds for the normal authority.
\* Stated as claimed; neither initialize_treasury nor update_multisig compares
\* the two keys.
C7_EmergencyAuthorityDistinct ==
    treasury_exists => treasury.emergency_multisig # treasury.authority

Mutators == {"update_mint_price", "toggle_minting", "transfer_authority"}

\* CollectionConfig after the single field write of a configuration mutator.
MutatedConfig(call, c) ==
    CASE call.op = "update_mint_price" ->
            [c EXCEPT !.mint_price_lamports = call.args.new_price]
      [] call.op = "toggle_minting" -> [c EXCEPT !.is_active = call.args.is_active]
      [] call.op = "transfer_authority" -> [c EXCEPT !.authority = call.args.new_authority]

\* C8: on an existing collection each configuration mutator signed by another
\* identity than CollectionConfig.authority fails with Unauthorized and changes
\* nothing; signed by the authority it succeeds and writes exactly its one
\* field, leaving the other fields (total_minted among them), the records, the
\* token-units and the balances as they were.
C8_MutatorsNeedAuthority ==
    [][(collection_exists /\ last'.op \in Mutators)
       => /\ UNCHANGED <<collection_exists, strategy_nfts, mints, lamports>>
          /\ IF last'.signer # collection_config.authority
             THEN last'.err = "Unauthorized" /\ UNCHANGED collection_config
             ELSE /\ last'.err = "Ok"
                  /\ collection_config' = MutatedConfig(last', collection_config)]_vars

C8_Witness ==
    /\ last.op = "transfer_authority"
    /\ last.err = "Unauthorized"
    /\ last.signer # collection_config.authority
    /\ last.args.new_authority = last.signer
    /\ collection_config.total_minted > 0

\* The value of the field a mutator writes, in configuration c.
MutatedField(op, c) ==
    CASE op = "update_mint_price" -> c.mint_price_lamports
      [] op = "toggle_minting" -> c.is_active
      [] op = "transfer_authority" -> c.authority

\* C9: the event of every successful configuration mutator has a field that
\* holds the value of the mutated field before the call and another field that
\* holds its value after the call.  Stated as claimed; MintingToggled has the
\* new value only.
C9_EventsCarryOldAndNew ==
    [][(last'.op \in Mutators /\ last'.err = "Ok")
       => \E old, new \in DOMAIN last'.event \ {"type"} :
             /\ old # new
             /\ last'.event[old] = MutatedField(last'.op, collection_config)
             /\ last'.event[new] = MutatedField(last'.op, collection_config')]_vars

\* C10: a successful add_profits followed at once by distribute_profits(10000)
\* by the authority succeeds, pays the whole profit pool to the holder, leaves
\* profit_pool = 0 and lowers total_sol by the amount paid.  Stated as claimed;
\* it fails once withdraw_emergency has taken total_sol below profit_pool (C1).
C10_AddThenDistributeAllDrainsPool ==
    [][(/\ Succeeded(last, "add_profits")
        /\ IsCall(last', "distribute_profits")
        /\ last'.signer = treasury.authority
        /\ last'.args.holder_share_bps = MAX_SHARE_BPS)
       => /\ last'.err = "Ok"
          /\ last'.event.amount = treasury.profit_pool
          /\ lamports' = Transfer(lamports, TreasuryPda, last'.args.holder,
                                  treasury.profit_pool)
          /\ treasury'.profit_pool = 0
          /\ treasury'.total_sol = treasury.total_sol - treasury.profit_pool]_vars

\* distribute_profits by the authority of an existing treasury with a
\* non-empty pool and a share in 1..10000: the call reaches the computation.
ReachesDistribution(call) ==
    /\ treasury_exists
    /\ IsCall(call, "distribute_profits")
    /\ call.signer = treasury.authority
    /\ treasury.profit_pool > 0
    /\ call.args.holder_share_bps \in 1..MAX_SHARE_BPS

\* floor(profit_pool * bps / 10000) of such a call.
FloorShare(call) ==
    (treasury.profit_pool * call.args.holder_share_bps) \div BPS_DENOMINATOR

\* C11 as claimed: a successful distribute_profits(bps) pays
\* floor(profit_pool * bps / 10000): the holder's balance rises by it and the
\* treasury's held balance, profit_pool and total_sol each fall by it; a
\* computed distribution of 0 fails with InvalidAmount and changes nothing;
\* profit_pool = 1000, bps = 2500 gives 250 and leaves 750.
C11_DistributionMovesShare ==
    [][/\ distribution_amount(1000, 2500) = 250
       /\ 1000 - distribution_amount(1000, 2500) = 750
       /\ ReachesDistribution(last') =>
            IF FloorShare(last') = 0
            THEN last'.err = "InvalidAmount" /\ UNCHANGED <<treasury, treasury_exists, lamports>>
            ELSE last'.err = "Ok" =>
                   /\ last'.event.amount = FloorShare(last')
                   /\ lamports'[last'.args.holder] =
                         lamports[last'.args.holder] + FloorShare(last')
                   /\ lamports'[TreasuryPda] = lamports[TreasuryPda] - FloorShare(last')
                   /\ treasury'.profit_pool = treasury.profit_pool - FloorShare(last')
                   /\ treasury'.total_sol = treasury.total_sol - FloorShare(last')]_vars

\* C11 as amended: the distribution is moved from the treasury account to the
\* holder account, so the balances change as claimed when the holder is another
\* account than the treasury; when the holder named is the treasury account
\* itself no balance changes, while profit_pool and total_sol still fall by the
\* distribution.
C11_DistributionTransfersShare ==
    [][/\ distribution_amount(1000, 2500) = 250
       /\ 1000 - distribution_amount(1000, 2500) = 750
       /\ ReachesDistribution(last') =>
            IF FloorShare(last') = 0
            THEN last'.err = "InvalidAmount" /\ UNCHANGED <<treasury, treasury_exists, lamports>>
            ELSE last'.err = "Ok" =>
                   /\ last'.event.amount = FloorShare(last')
                   /\ lamports' = Transfer(lamports, TreasuryPda, last'.args.holder,
                                           FloorShare(last'))
                   /\ (last'.args.holder # TreasuryPda =>
                         /\ lamports'[last'.args.holder] =
                               lamports[last'.args.holder] + FloorShare(last')
                         /\ lamports'[TreasuryPda] =
                               lamports[TreasuryPda] - FloorShare(last'))
                   /\ (last'.args.holder = TreasuryPda => lamports' = lamports)
                   /\ treasury' = [treasury EXCEPT
                         !.profit_pool = treasury.profit_pool - FloorShare(last'),
                         !.total_sol = treasury.total_sol - FloorShare(last')]]_vars

\* A quarter of a pool of 4 has been paid to a wallet.
C11_Witness ==
    /\ Succeeded(last, "distribute_profits")
    /\ last.args.holder_share_bps = 2500
    /\ last.args.holder # TreasuryPda
    /\ last.event.amount = 1
    /\ last.event.remaining_pool = 3
    /\ treasury.profit_pool = 3

\* withdraw_emergency signed by the emergency authority of an existing treasury.
ByMultisig(call) ==
    /\ treasury_exists
    /\ IsCall(call, "withdraw_emergency")
    /\ call.signer = treasury.emergency_multisig

\* C12 as claimed: a successful withdraw_emergency(amount) takes amount from
\* the treasury's held balance, adds it to the destination's balance and lowers
\* total_sol by amount, leaving profit_pool, authority and emergency_multisig
\* as they were; with amount = 0 or amount > total_sol it fails with
\* InsufficientFunds and changes nothing.
C12_WithdrawMovesAmount ==
    [][ByMultisig(last') =>
         IF last'.args.amount = 0 \/ last'.args.amount > treasury.total_sol
         THEN last'.err = "InsufficientFunds"
              /\ UNCHANGED <<treasury, treasury_exists, lamports>>
         ELSE /\ last'.err = "Ok"
              /\ lamports'[TreasuryPda] = lamports[TreasuryPda] - last'.args.amount
              /\ lamports'[last'.args.destination] =
                    lamports[last'.args.destination] + last'.args.amount
              /\ treasury' = [treasury EXCEPT !.total_sol = @ - last'.args.amount]]_vars

\* C12 as amended: amount is moved from the treasury account to the
\* destination account, so the balances change as claimed when the destination
\* is another account than the treasury; when the destination named is the
\* treasury account itself no balance changes, while total_sol still falls by
\* amount.
C12_WithdrawTransfersAmount ==
    [][ByMultisig(last') =>
         IF last'.args.amount = 0 \/ last'.args.amount > treasury.total_sol
         THEN last'.err = "InsufficientFunds"
              /\ UNCHANGED <<treasury, treasury_exists, lamports>>
         ELSE /\ last'.err = "Ok"
              /\ lamports' = Transfer(lamports, TreasuryPda, last'.args.destination,
                                      last'.args.amount)
              /\ (last'.args.destination # TreasuryPda =>
                    /\ lamports'[TreasuryPda] = lamports[TreasuryPda] - last'.args.amount
                    /\ lamports'[last'.args.destination] =
                          lamports[last'.args.destination] + last'.args.amount)
              /\ (last'.args.destination = TreasuryPda => lamports' = lamports)
              /\ treasury' = [treasury EXCEPT !.total_sol = @ - last'.args.amount]]_vars

\* The emergency authority, which is not the normal authority, has withdrawn
\* to a wallet from a treasury with a non-empty profit pool.
C12_Witness ==
    /\ Succeeded(last, "withdraw_emergency")
    /\ last.signer # treasury.authority
    /\ last.args.destination # TreasuryPda
    /\ last.args.amount = MaxAmount
    /\ treasury.profit_pool > 0

\* C13: add_profits succeeds only for the authority with amount > 0 (the
\* authority's amount = 0 fails with InvalidAmount, another caller fails); a
\* success moves amount from the caller to the treasury's held balance and
\* raises total_sol and profit_pool by exactly amount; an addition that would
\* pass the unsigned range aborts the call instead of wrapping; a failed call
\* changes nothing.
C13_AddProfits ==
    [][IsCall(last', "add_profits") =>
         /\ last'.err = "Ok" =>
              /\ treasury_exists
              /\ last'.signer = treasury.authority
              /\ last'.args.amount > 0
              /\ lamports' = Transfer(lamports, last'.signer, TreasuryPda, last'.args.amount)
              /\ lamports'[TreasuryPda] = lamports[TreasuryPda] + last'.args.amount
              /\ lamports'[last'.signer] = lamports[last'.signer] - last'.args.amount
              /\ treasury' = [treasury EXCEPT
                    !.total_sol = treasury.total_sol + last'.args.amount,
                    !.profit_pool = treasury.profit_pool + last'.args.amount]
              /\ treasury'.total_sol <= U64_MAX
              /\ treasury'.profit_pool <= U64_MAX
         /\ (treasury_exists /\ last'.signer = treasury.authority /\ last'.args.amount = 0)
              => last'.err = "InvalidAmount"
         /\ (/\ treasury_exists
             /\ \/ treasury.total_sol + last'.args.amount > U64_MAX
                \/ treasury.profit_pool + last'.args.amount > U64_MAX)
              => last'.err # "Ok"
         /\ last'.err # "Ok" => UNCHANGED <<treasury, treasury_exists, lamports>>]_vars

\* The authority, holding the lamports, added an amount that takes
\* profit_pool past the unsigned range: the call panicked.
C13_Witness ==
    /\ last.op = "add_profits"
    /\ last.err = "Panic"
    /\ last.signer = treasury.authority
    /\ last.args.amount > 0
    /\ lamports[last.signer] >= last.args.amount
    /\ treasury.profit_pool + last.args.amount > U64_MAX

\* C14: initialize_collection succeeds at most once: on a program without
\* CollectionConfig it creates it with authority = caller, mint_price_lamports
\* = 100_000_000, is_active = true, total_minted = 0 and touches nothing else;
\* once the configuration exists every call fails and changes nothing, and the
\* configuration never ceases to exist.
C14_InitializeCollectionOnce ==
    [][/\ collection_exists => collection_exists'
       /\ IsCall(last', "initialize_collection") =>
            IF ~collection_exists
            THEN /\ last'.err = "Ok"
                 /\ collection_exists'
                 /\ collection_config' =
                       [authority |-> last'.signer, total_minted |-> 0,
                        mint_price_lamports |-> 100000000, is_active |-> TRUE]
                 /\ UNCHANGED <<strategy_nfts, mints, lamports>>
            ELSE /\ last'.err # "Ok"
                 /\ UNCHANGED <<collection_config, collection_exists, strategy_nfts,
                                mints, lamports>>]_vars

\* A second initialize_collection by another identity failed on a paused
\* collection with a changed price and a minted record.
C14_Witness ==
    /\ Failed(last, "initialize_collection")
    /\ last.signer # collection_config.authority
    /\ collection_config.total_minted > 0
    /\ collection_config.mint_price_lamports # DEFAULT_MINT_PRICE
    /\ ~collection_config.is_active

\* C15: initialize_treasury succeeds at most once: on a program without
\* TreasuryState a call whose caller holds amount creates it with authority =
\* caller, emergency_multisig = the account given, total_sol = amount,
\* profit_pool = 0, is_initialized = true and moves amount from the caller to
\* the treasury's held balance; once TreasuryState exists every call fails, and
\* a failed call changes neither TreasuryState nor any balance.
C15_InitializeTreasuryOnce ==
    [][/\ treasury_exists => treasury_exists'
       /\ IsCall(last', "initialize_treasury") =>
            /\ treasury_exists => last'.err # "Ok"
            /\ (~treasury_exists /\ lamports[last'.signer] >= last'.args.amount)
                 => last'.err = "Ok"
            /\ last'.err = "Ok" =>
                 /\ treasury_exists'
                 /\ treasury' =
                       [authority |-> last'.signer,
                        emergency_multisig |-> last'.args.multisig,
                        total_sol |-> last'.args.amount, profit_pool |-> 0,
                        is_initialized |-> TRUE]
                 /\ lamports'[TreasuryPda] = lamports[TreasuryPda] + last'.args.amount
                 /\ lamports'[last'.signer] = lamports[last'.signer] - last'.args.amount
                 /\ \A a \in Accounts \ {TreasuryPda, last'.signer} : lamports'[a] = lamports[a]
            /\ last'.err # "Ok" => UNCHANGED <<treasury, treasury_exists, lamports>>]_vars

\* A second initialize_treasury by another identity, which holds the amount,
\* failed on a treasury with profits.
C15_Witness ==
    /\ Failed(last, "initialize_treasury")
    /\ treasury_exists
    /\ last.signer # treasury.authority
    /\ last.args.amount > 0
    /\ lamports[last.signer] >= last.args.amount
    /\ treasury.profit_pool > 0

\* The step a has run in the invocation in progress.
Done(a) == tx.pc # 0 /\ \E i \in DOMAIN tx.done : tx.done[i] = a

\* In the invocation in progress the step a did not run after the step b.
Before(a, b) ==
    tx.pc # 0 =>
        \A i, j \in DOMAIN tx.done : (tx.done[i] = a /\ tx.done[j] = b) => i < j

\* The steps of the handler body run in the order of the source.
HandlerOrder ==
    /\ Before("require_is_active", "transfer_fee")
    /\ Before("transfer_fee", "mint_to")
    /\ Before("mint_to", "create_metadata_accounts_v3")
    /\ Before("create_metadata_accounts_v3", "create_master_edition_v3")
    /\ Before("create_master_edition_v3", "store_strategy_data")
    /\ Before("store_strategy_data", "total_minted")

C17_FeeIsPriceInForce ==
    [][/\ Succeeded(last', "mint_strategy_nft") =>
            /\ lamports' = Transfer(lamports, last'.signer, last'.args.treasury,
                                    collection_config.mint_price_lamports)
            /\ strategy_nfts'[last'.args.strategy_id].mint_price =
                  collection_config.mint_price_lamports
            /\ last'.event.mint_price = collection_config.mint_price_lamports
       /\ Succeeded(last', "initialize_collection") =>
            collection_config'.mint_price_lamports = DEFAULT_MINT_PRICE
       /\ Succeeded(last', "update_mint_price") =>
            collection_config'.mint_price_lamports = last'.args.new_price
       /\ ~(Succeeded(last', "initialize_collection") \/ Succeeded(last', "update_mint_price"))
            => collection_config'.mint_price_lamports = collection_config.mint_price_lamports
       /\ \A id \in DOMAIN strategy_nfts :
            /\ id \in DOMAIN strategy_nfts'
            /\ strategy_nfts'[id] = strategy_nfts[id]]_vars

\* A mint at an updated price has succeeded while an earlier record, minted at
\* the default price, still stores the default.
C17_Witness ==
    /\ Succeeded(last, "mint_strategy_nft")
    /\ collection_config.mint_price_lamports # DEFAULT_MINT_PRICE
    /\ strategy_nfts[last.args.strategy_id].mint_price = collection_config.mint_price_lamports
    /\ \E id \in DOMAIN strategy_nfts : strategy_nfts[id].mint_price = DEFAULT_MINT_PRICE

\* C18: for every profit_pool of the unsigned word and every holder_share_bps
\* in 1..10000 the product profit_pool * holder_share_bps fits the widened
\* intermediate, the quotient by 10000 fits the word, so that narrowing does
\* not truncate it, and it is at most profit_pool; hence the computation never
\* panics and the outcome is never InsufficientFunds.
C18_DistributionFitsAndBounded ==
    IsCall(last, "distribution_amount") =>
        LET pool == last.args.profit_pool
            bps == last.args.holder_share_bps
        IN  /\ last.err \notin {"InsufficientFunds", "Panic"}
            /\ (pool \in 0..WordMax /\ bps \in 1..10000) =>
                  /\ checked_mul(pool, bps) = pool * bps
                  /\ pool * bps <= WideMax
                  /\ (pool * bps) \div 10000 <= WordMax
                  /\ distribution_amount_u128(pool, bps) = (pool * bps) \div 10000
                  /\ distribution_amount_u128(pool, bps) <= pool

\* The largest pool is distributed in full.
C18_Witness ==
    /\ Succeeded(last, "distribution_amount")
    /\ last.args.profit_pool = WordMax
    /\ last.args.holder_share_bps = 10000
    /\ last.event.amount = WordMax

\* The instructions that require is_initialized.
RequireInitialized ==
    {"add_profits", "distribute_profits", "withdraw_emergency", "update_multisig"}

\* C19: whenever the TreasuryState record exists its is_initialized flag is
\* true, so no instruction ever fails with NotInitialized: while the record
\* does not exist add_profits, distribute_profits, withdraw_emergency and
\* update_multisig fail because the account is missing, and once it exists the
\* flag is never cleared.
C19_ExistingTreasuryIsInitialized ==
    /\ treasury_exists => treasury.is_initialized
    /\ last.err # "NotInitialized"
    /\ (~treasury_exists /\ last.op \in RequireInitialized)
          => last.err = "AccountNotInitialized"

\* On an existing treasury each kind of instruction has been let through the
\* is_initialized requirement: here a distribution that succeeded after
\* profits were added.
C19_Witness ==
    /\ treasury_exists
    /\ Succeeded(last, "distribute_profits")
    /\ treasury.is_initialized
    /\ treasury.emergency_multisig # treasury.authority

\* What the treasury account holds beyond the tracked total_sol.
Untracked(l, t) == l[TreasuryPda] - t.total_sol

\* C20: the balance the treasury account holds is always at least total_sol,
\* and no operation lowers the difference between the two, also when mint fees
\* are deposited into the treasury account without total_sol being updated;
\* therefore the debit of distribute_profits, reached once its requirements
\* pass, and the debit of withdraw_emergency never exceed the balance held.
\* Stated as claimed; the debit of distribute_profits is bounded by
\* profit_pool, which exceeds total_sol and the balance held once
\* withdraw_emergency has lowered total_sol alone (C1).
C20_HeldBalanceCoversDebits ==
    [][/\ lamports'[TreasuryPda] >= treasury'.total_sol
       /\ Untracked(lamports', treasury') >= Untracked(lamports, treasury)
       /\ (ReachesDistribution(last') /\ FloorShare(last') > 0)
             => lamports[TreasuryPda] >= FloorShare(last')
       /\ (ByMultisig(last') /\ last'.args.amount > 0
                             /\ last'.args.amount <= treasury.total_sol)
             => lamports[TreasuryPda] >= last'.args.amount]_vars

\* C21: profit_pool is the sum of the amounts accepted by the successful
\* add_profits calls minus the sum of the distributions paid by the successful
\* distribute_profits calls: it is 0 before any call, a successful
\* add_profits(amount) raises it by exactly amount, a successful
\* distribute_profits lowers it by exactly the distribution it pays, and
\* nothing else changes it, neither initialize_treasury and its deposit, nor
\* withdraw_emergency, nor update_multisig, nor any failed call.
C21_ProfitPoolIsAddedMinusDistributed ==
    /\ treasury.profit_pool = 0
    /\ [][IF Succeeded(last', "add_profits")
          THEN treasury'.profit_pool = treasury.profit_pool + last'.args.amount
          ELSE IF Succeeded(last', "distribute_profits")
          THEN /\ last'.event.amount = FloorShare(last')
               /\ treasury'.profit_pool = treasury.profit_pool - last'.event.amount
               /\ lamports' = Transfer(lamports, TreasuryPda, last'.args.holder,
                                       last'.event.amount)
          ELSE treasury'.profit_pool = treasury.profit_pool]_vars

\* A distribution has been paid out of a pool that profits were added to, with
\* an emergency withdrawal in between (the pool exceeds total_sol), and part of
\* the pool remains.
C21_Witness ==
    /\ Succeeded(last, "distribute_profits")
    /\ last.event.amount > 0
    /\ treasury.profit_pool > 0
    /\ treasury.profit_pool > treasury.total_sol

\* The identities whose configuration mutators CollectionConfig c accepts.
ConfigAuthorities(c) == {k \in Accounts : UpdateConfigConstraint(k, c)}

\* The fields of CollectionConfig that the configuration mutators write.
Configuration(c) == <<c.authority, c.mint_price_lamports, c.is_active>>

====
